---- MODULE Spec2Model ----
(***************************************************************************)
(* Model of the To-do list web application: the Request and Response       *)
(* adapters, the route table registered by the controllers, the dispatch   *)
(* step of the router, the handlers of TodoController and                  *)
(* SubTodoController, and the todos / subtodos tables they read and write. *)
(*                                                                         *)
(* Conventions                                                             *)
(*   - a JavaScript string that may be undefined is a TLA+ string, with    *)
(*     Undef standing for undefined; "" is the empty string;               *)
(*   - any other optional value is a tuple: <<>> is undefined, <<v>> is v; *)
(*   - a raw URL is a sequence of tokens, "/" being the separator;         *)
(*   - a number is a record [nan, v] so that NaN is a value of its own.    *)
(***************************************************************************)
EXTENDS Integers, Sequences, FiniteSets, TLC

VARIABLES todos, subtodos, nextTodoId, nextSubTodoId, conn, probe

vars == <<todos, subtodos, nextTodoId, nextSubTodoId, conn, probe>>

storeVars == <<todos, subtodos, nextTodoId, nextSubTodoId>>

----------------------------------------------------------------------------
(* Bounds *)

\* number of rows the todos sequence may hand out
MaxTodos == 2

\* number of rows the subtodos sequence may hand out
MaxSubTodos == 2

----------------------------------------------------------------------------
(* JavaScript values *)

Undef == "<undefined>"

Null == "<null>"

Truthy(s) == s \notin {Undef, Null, ""}

None == <<>>

Some(v) == <<v>>

NaN == [nan |-> TRUE, v |-> 0]

Num(n) == [nan |-> FALSE, v |-> n]

isNaN(x) == x.nan

----------------------------------------------------------------------------
(* Response.ts *)

OK == 200

Created == 201

Redirect == 302

BadRequest == 400

NotFound == 404

InternalServerError == 500

StatusCodes == {OK, Created, Redirect, BadRequest, NotFound, InternalServerError}

JSON == "application/json"

HTML == "text/html"

\* ResponseProps: a descriptor handed to Response.send
Props(statusCode, message, payload, template, redirect) ==
    [statusCode |-> statusCode, message |-> message, payload |-> payload,
     template |-> template, redirect |-> redirect]

\* Request.accepts: the Accept header is absent (<<>>) or a list of media
\* types (<<list>>); an empty list is the empty header string
accepts(accept, type) ==
    IF accept # None /\ accept[1] # <<>>
    THEN \E i \in 1..Len(accept[1]) : accept[1][i] = type
    ELSE FALSE

\* View.render(template, payload): the markup is identified by its inputs
render(template, payload) == [template |-> template, payload |-> payload]

\* stringify writing the payload key even when the payload is undefined
stringifyAllKeys(message, payload) ==
    [keys |-> {"message", "payload"}, message |-> message, payload |-> payload]

\* JSON.stringify({ message, payload }): a key whose value is undefined is
\* left out of the text
stringify(message, payload) ==
    [keys |-> IF payload = None THEN {"message"} ELSE {"message", "payload"},
     message |-> message, payload |-> payload]

NoMarkup == render(Undef, None)

NoJson == [keys |-> {}, message |-> Undef, payload |-> None]

\* what writeHead / end put on the wire
Wire(status, location, contentType, kind, markup, json) ==
    [status |-> status, location |-> location, contentType |-> contentType,
     kind |-> kind, markup |-> markup, json |-> json]

\* send giving the template priority over the redirect
sendTemplateFirst(accept, props) ==
    IF accepts(accept, HTML) /\ Truthy(props.template)
    THEN Wire(props.statusCode, Undef, HTML, "html",
              render(props.template, props.payload), NoJson)
    ELSE IF accepts(accept, HTML) /\ Truthy(props.redirect)
    THEN Wire(Redirect, props.redirect, Undef, "empty", NoMarkup, NoJson)
    ELSE Wire(props.statusCode, Undef, JSON, "json", NoMarkup,
              stringify(props.message, props.payload))

\* send redirecting whatever the client accepts
sendRedirectAlways(accept, props) ==
    IF Truthy(props.redirect)
    THEN Wire(Redirect, props.redirect, Undef, "empty", NoMarkup, NoJson)
    ELSE IF accepts(accept, HTML) /\ Truthy(props.template)
    THEN Wire(props.statusCode, Undef, HTML, "html",
              render(props.template, props.payload), NoJson)
    ELSE Wire(props.statusCode, Undef, JSON, "json", NoMarkup,
              stringify(props.message, props.payload))

\* Response.send
send(accept, props) ==
    IF accepts(accept, HTML) /\ Truthy(props.redirect)
    THEN Wire(Redirect, props.redirect, Undef, "empty", NoMarkup, NoJson)
    ELSE IF accepts(accept, HTML) /\ Truthy(props.template)
    THEN Wire(props.statusCode, Undef, HTML, "html",
              render(props.template, props.payload), NoJson)
    ELSE Wire(props.statusCode, Undef, JSON, "json", NoMarkup,
              stringify(props.message, props.payload))

----------------------------------------------------------------------------
(* Request.ts *)

Methods == {"GET", "POST", "PUT", "DELETE"}

\* the fields of a parsed body that the router and the controllers read
Body(title, description, method, umethod) ==
    [title |-> title, description |-> description, method |-> method,
     _method |-> umethod]

\* body: Record<string, any> = {}
EmptyBody == Body(Undef, Undef, Undef, Undef)

\* tokens that end the path of a raw URL: the query string
QueryTokens == {"?x=1", "?status=complete", "?status=incomplete",
                "?status=abc", "?sortBy=title",
                "?sortBy=status", "?orderBy=up"}

\* String.prototype.split("/") on a sequence of tokens: the segments between
\* the separators, each a (possibly empty) sequence of tokens
RECURSIVE split(_)
split(url) ==
    IF url = <<>> THEN << <<>> >>
    ELSE LET rest == split(Tail(url))
         IN  IF Head(url) = "/" THEN << <<>> >> \o rest
             ELSE << <<Head(url)>> \o Head(rest) >> \o Tail(rest)

\* the decimal literals among the tokens
Digits == [t \in {"0", "1", "2", "3"} |->
             CASE t = "0" -> 0 [] t = "1" -> 1 [] t = "2" -> 2 [] t = "3" -> 3]

\* Number(x) for x = parts[i], parts a split URL and i a JavaScript index:
\* undefined is NaN, "" is 0, a decimal literal is its value, other text NaN
Number(parts, i) ==
    IF i + 1 > Len(parts) THEN NaN
    ELSE LET seg == parts[i + 1]
         IN  IF seg = <<>> THEN Num(0)
             ELSE IF Len(seg) = 1 /\ seg[1] \in DOMAIN Digits
                  THEN Num(Digits[seg[1]])
                  ELSE NaN

\* Request.getId
getId(url) == Number(split(url), 2)

\* Request.getSubTodoId
getSubTodoId(url) == Number(split(url), 4)

\* getMethod without the override
getMethodTransport(body, reqMethod) == reqMethod

\* getMethod with || in place of ??
getMethodOr(body, reqMethod) ==
    IF Truthy(body.method) THEN body.method ELSE reqMethod

\* Request.getMethod: this.body.method ?? this.req.method
getMethod(body, reqMethod) ==
    IF body.method \notin {Undef, Null} THEN body.method ELSE reqMethod

\* URL.pathname: the raw URL up to the query string
RECURSIVE pathname(_)
pathname(url) ==
    IF url = <<>> \/ Head(url) \in QueryTokens THEN <<>>
    ELSE <<Head(url)>> \o pathname(Tail(url))

\* URL.searchParams.get(key) for the query strings of QueryTokens
searchParam(url, key) ==
    IF url = <<>> THEN Undef
    ELSE LET q == url[Len(url)]
         IN  CASE q = "?status=complete" /\ key = "status" -> "complete"
               [] q = "?status=incomplete" /\ key = "status" -> "incomplete"
               [] q = "?status=abc" /\ key = "status" -> "abc"
               [] q = "?sortBy=title" /\ key = "sortBy" -> "title"
               [] q = "?sortBy=status" /\ key = "sortBy" -> "status"
               [] q = "?orderBy=up" /\ key = "orderBy" -> "up"
               [] q = "?x=1" /\ key = "x" -> "1"
               [] OTHER -> Undef

\* parsing with JSON.parse whatever the Content-Type
parseBodyJsonOnly(contentType, text, fields) ==
    IF text = "object" THEN Some(fields) ELSE None

\* Request.parseBody, at end-of-stream: the text received is empty, not JSON
\* ("garbage") or a JSON / form encoding of the mapping `fields`.  The result
\* is the parsed mapping, or None when parsing throws and the promise rejects.
parseBody(contentType, text, fields) ==
    IF contentType = "x-www-form-urlencoded"
    THEN IF text = "object" THEN Some(fields) ELSE Some(EmptyBody)
    ELSE IF text = "object" THEN Some(fields) ELSE None

----------------------------------------------------------------------------
(* Route tables: TodoController.registerRoutes, SubTodoController.registerRoutes *)

Route(method, path, handler) ==
    [method |-> method, path |-> path, handler |-> handler]

\* registerRoutes with the :id routes registered before the static ones
TodoRoutesIdFirst ==
    << Route("GET", <<"/", "todos", "/", ":id">>, "getTodo"),
       Route("PUT", <<"/", "todos", "/", ":id">>, "updateTodo"),
       Route("DELETE", <<"/", "todos", "/", ":id">>, "deleteTodo"),
       Route("PUT", <<"/", "todos", "/", ":id", "/", "complete">>, "completeTodo"),
       Route("GET", <<"/", "todos">>, "getTodoList"),
       Route("POST", <<"/", "todos">>, "createTodo"),
       Route("GET", <<"/", "todos", "/", "new">>, "sendFormCreate"),
       Route("GET", <<"/", "todos", "/", ":id", "/", "edit">>, "sendFormEdit") >>

\* TodoController.registerRoutes, in registration order
TodoRoutes ==
    << Route("GET", <<"/", "todos">>, "getTodoList"),
       Route("POST", <<"/", "todos">>, "createTodo"),
       Route("GET", <<"/", "todos", "/", "new">>, "sendFormCreate"),
       Route("GET", <<"/", "todos", "/", ":id", "/", "edit">>, "sendFormEdit"),
       Route("GET", <<"/", "todos", "/", ":id">>, "getTodo"),
       Route("PUT", <<"/", "todos", "/", ":id">>, "updateTodo"),
       Route("DELETE", <<"/", "todos", "/", ":id">>, "deleteTodo"),
       Route("PUT", <<"/", "todos", "/", ":id", "/", "complete">>, "completeTodo") >>

\* SubTodoController.registerRoutes, in registration order
SubTodoRoutes ==
    << Route("POST", <<"/", "todos", "/", ":id", "/", "subtodos">>, "createSubtodo"),
       Route("GET", <<"/", "todos", "/", ":id", "/", "subtodos">>, "getSubTodoList"),
       Route("PUT", <<"/", "todos", "/", ":id", "/", "subtodos", "/", ":subid",
                      "/", "complete">>, "completeSubTodo") >>

\* the routes of the server: the home page, then the two controllers
Routes == << Route("GET", <<"/">>, "home") >> \o TodoRoutes \o SubTodoRoutes

Handlers == {Routes[i].handler : i \in 1..Len(Routes)}

----------------------------------------------------------------------------
(* Router: matching and dispatch *)

\* a segment of a route pattern that captures a value
isDynamic(seg) == seg \in {<<":id">>, <<":subid">>}

\* a match that does not compare the methods
routeMatchesAnyMethod(route, method, path) ==
    LET pattern == split(route.path)
        parts == split(path)
    IN  /\ Len(pattern) = Len(parts)
        /\ \A i \in 1..Len(pattern) :
              isDynamic(pattern[i]) \/ pattern[i] = parts[i]

\* a route matches when the methods are equal, the segment counts are equal
\* and every literal segment of the pattern equals the segment of the path
routeMatches(route, method, path) ==
    LET pattern == split(route.path)
        parts == split(path)
    IN  /\ route.method = method
        /\ Len(pattern) = Len(parts)
        /\ \A i \in 1..Len(pattern) :
              isDynamic(pattern[i]) \/ pattern[i] = parts[i]

\* the index of the first route, in registration order, that matches; 0 if none
findRoute(routes, method, path) ==
    LET hits == {i \in 1..Len(routes) : routeMatches(routes[i], method, path)}
    IN  IF hits = {} THEN 0 ELSE CHOOSE i \in hits : \A j \in hits : i <= j

\* the text of a sequence of tokens
RECURSIVE join(_)
join(tokens) == IF tokens = <<>> THEN "" ELSE Head(tokens) \o join(Tail(tokens))

\* `Invalid route: ${method} ${path}`
invalidRoute(method, path) == "Invalid route: " \o method \o " " \o join(path)

----------------------------------------------------------------------------
(* The tables of init.sql and the statements of Todo.ts / Subtodo.ts *)

TodoRow(id, title, description, status, completedAt, editedAt) ==
    [id |-> id, title |-> title, description |-> description,
     status |-> status, completedAt |-> completedAt, editedAt |-> editedAt]

SubTodoRow(id, title, status, completedAt, todoId) ==
    [id |-> id, title |-> title, status |-> status,
     completedAt |-> completedAt, todoId |-> todoId]

\* SELECT * FROM todos WHERE id = ${id}
selectTodo(id) == {t \in todos : t.id = id}

\* SELECT * FROM subtodos WHERE id = ${id}
selectSubTodo(id) == {t \in subtodos : t.id = id}

\* SubTodo.readByTodoId: SELECT * FROM subtodos WHERE todo_id = ${todoId}
readByTodoId(todoId) == {t \in subtodos : t.todoId = Some(todoId)}

\* Todo.read with a SELECT that has no WHERE clause
TodoReadAny(id) ==
    IF todos = {} THEN None
    ELSE Some([props |-> CHOOSE t \in todos : TRUE,
               subTodos |-> readByTodoId(id)])

\* Todo.read: the row and its subtodos, or None
TodoRead(id) ==
    IF selectTodo(id) = {} THEN None
    ELSE Some([props |-> CHOOSE t \in selectTodo(id) : TRUE,
               subTodos |-> readByTodoId(id)])

\* Todo.readAll, getSortBy: the column of ORDER BY
getSortBy(sortBy) ==
    CASE sortBy = "title" -> "title"
      [] sortBy = "description" -> "description"
      [] sortBy = "status" -> "status"
      [] sortBy = "dueAt" -> "due_at"
      [] sortBy = "createdAt" -> "created_at"
      [] sortBy = "completedAt" -> "completed_at"
      [] sortBy = "editedAt" -> "edited_at"
      [] OTHER -> "id"

\* Todo.readAll, getOrderBy
getOrderBy(orderBy) == IF orderBy = "asc" THEN "ASC" ELSE "DESC"

\* Todo.readAll: the ORDER BY clause of the query, Undef where it has none
orderByClause(sortBy, orderBy) ==
    [column |-> IF Truthy(sortBy) THEN getSortBy(sortBy) ELSE Undef,
     direction |-> IF Truthy(orderBy) THEN getOrderBy(orderBy) ELSE Undef]

\* Todo.readAll without the WHERE clause
TodoReadAllUnfiltered(status) == todos

\* Todo.readAll: WHERE status = ${filters.status} when the filter is truthy
TodoReadAll(status) ==
    IF Truthy(status) THEN {t \in todos : t.status = status} ELSE todos

\* SubTodo.readAll: WHERE status = ${value} when the filter has the key
SubTodoReadAll(status) ==
    IF Truthy(status) THEN {t \in subtodos : t.status = status} ELSE subtodos

\* Todo.update: UPDATE todos SET ..., edited_at = now WHERE id = ${id}
assign(t, updateProps) ==
    [k \in DOMAIN t |-> IF k \in DOMAIN updateProps THEN updateProps[k] ELSE t[k]]

\* an update that writes the status of the row back to "incomplete"
updateTodosReset(id, updateProps) ==
    {IF t.id = id
     THEN [assign(t, updateProps) EXCEPT !.editedAt = TRUE, !.status = "incomplete"]
     ELSE t : t \in todos}

updateTodos(id, updateProps) ==
    {IF t.id = id THEN [assign(t, updateProps) EXCEPT !.editedAt = TRUE] ELSE t
        : t \in todos}

\* SubTodo.update: UPDATE subtodos SET ... WHERE id = ${id}
updateSubTodos(id, updateProps) ==
    {IF t.id = id THEN assign(t, updateProps) ELSE t : t \in subtodos}

\* DELETE FROM todos WHERE id = ${id}
deleteTodos(id) == {t \in todos : t.id # id}

\* a foreign key without ON DELETE CASCADE that keeps the subtodos
cascadeNone(id) == subtodos

\* ON DELETE CASCADE of subtodos.todo_id
cascade(id) == {t \in subtodos : t.todoId # Some(id)}

\* ${x || null} for a todo id: NaN and 0 become NULL
orNull(n) == IF isNaN(n) \/ n.v = 0 THEN None ELSE Some(n.v)

\* INSERT INTO subtodos is accepted: title NOT NULL, todo_id REFERENCES todos
subTodoInsertable(title, todoId) ==
    /\ Truthy(title)
    /\ IF todoId = None THEN TRUE ELSE selectTodo(todoId[1]) # {}

----------------------------------------------------------------------------
(* A connection: the Request / Response pair of one request and the        *)
(* position of its handler                                                 *)

Slots == {1, 2}

\* an incoming message
Req(method, url, accept, contentType, text, fields) ==
    [method |-> method, url |-> url, accept |-> accept,
     contentType |-> contentType, text |-> text, fields |-> fields]

Conn(pc, r) ==
    [pc |-> pc, method |-> r.method, url |-> r.url, accept |-> r.accept,
     contentType |-> r.contentType, text |-> r.text, fields |-> r.fields,
     body |-> EmptyBody, handler |-> Undef, todo |-> None,
     sends |-> <<>>, wire |-> None, threw |-> FALSE]

Idle == Conn("idle", Req("GET", <<>>, None, "json", "empty", EmptyBody))

\* res.send(props) for each descriptor of `ps` in turn.  The first send of a
\* connection writes the response; writeHead on a response whose headers
\* were sent throws, so every later send is attempted and throws.
Emit(c, ps) ==
    [c EXCEPT !.sends = @ \o ps,
              !.wire = IF @ = None /\ ps # <<>>
                       THEN Some(send(c.accept, ps[1])) ELSE @,
              !.threw = @ \/ Len(c.sends \o ps) > 1]

\* the handler returns (or its promise rejects) after the sends `ps`
Done(c, ps) == [Emit(c, ps) EXCEPT !.pc = "done"]

\* the handler suspends on a store call
Await(c, call) == [c EXCEPT !.pc = call]

Plain(statusCode, message) == Props(statusCode, message, None, Undef, Undef)

ErrorView(message) ==
    Props(InternalServerError, message, None, "ErrorView", Undef)

InvalidID == Plain(BadRequest, "Invalid ID")

\* `${n}` for a number
Str(n) == IF isNaN(n) THEN "NaN" ELSE ToString(n.v)

\* TodoController.isSortByValid
isSortByValid(sortBy) ==
    sortBy \in {"id", "title", "description", "dueAt", "createdAt", "updatedAt"}

\* TodoController.isOrderByValid
isOrderByValid(orderBy) == orderBy \in {"asc", "desc"}

\* x ?? d
orElse(x, d) == IF x \in {Undef, Null} THEN d ELSE x

\* SubTodoController.isValidSubTodoProps: typeof props.title === "string"
isValidSubTodoProps(title) == title \notin {Undef, Null}

----------------------------------------------------------------------------
(* The handlers up to their first store call *)

\* getTodoList: the validation of the query parameters; the message of
\* the 400 answer, or Undef when the handler goes on to Todo.readAll
getTodoListQuery(statusFilter, sortByParam, orderByParam) ==
    LET sortBy == orElse(sortByParam, "id")
        orderBy == orElse(orderByParam, "asc")
    IN  IF Truthy(statusFilter) /\ statusFilter \notin {"incomplete", "complete"}
        THEN "Invalid filter parameter."
        ELSE IF Truthy(sortBy) /\ ~isSortByValid(sortBy)
        THEN "Invalid sortBy parameter."
        ELSE IF Truthy(orderBy) /\ ~isOrderByValid(orderBy)
        THEN "Invalid orderBy parameter."
        ELSE Undef

getTodoListBegin(c) ==
    LET invalid == getTodoListQuery(searchParam(c.url, "status"),
                                    searchParam(c.url, "sortBy"),
                                    searchParam(c.url, "orderBy"))
    IN  IF invalid # Undef THEN Done(c, <<Plain(BadRequest, invalid)>>)
        ELSE Await(c, "Todo.readAll")

\* getTodo, sendFormEdit, deleteTodo, completeTodo
readByIdBegin(c) ==
    IF isNaN(getId(c.url)) THEN Done(c, <<InvalidID>>)
    ELSE Await(c, "Todo.read")

sendFormCreateBegin(c) ==
    Done(c, <<Props(OK, "Form served successfully!", None, "NewFormView", Undef)>>)

\* createTodo returning from the validation failure without a response
createTodoBeginSilent(c) ==
    IF ~Truthy(c.body.title) \/ ~Truthy(c.body.description)
    THEN Done(c, <<>>)
    ELSE Await(c, "Todo.create")

\* createTodo validating the title only
createTodoBeginTitleOnly(c) ==
    IF ~Truthy(c.body.title)
    THEN Done(c, <<Props(BadRequest,
                         "Request body must include title and description.",
                         Some([errorMessage |-> "Title and description are required."]),
                         "NewFormView", Undef)>>)
    ELSE Await(c, "Todo.create")

createTodoBegin(c) ==
    IF ~Truthy(c.body.title) \/ ~Truthy(c.body.description)
    THEN Done(c, <<Props(BadRequest,
                         "Request body must include title and description.",
                         Some([errorMessage |-> "Title and description are required."]),
                         "NewFormView", Undef)>>)
    ELSE Await(c, "Todo.create")

updateTodoBegin(c) ==
    IF isNaN(getId(c.url)) THEN Done(c, <<InvalidID>>)
    ELSE IF ~Truthy(c.body.title) \/ ~Truthy(c.body.description)
    THEN Done(c, <<Plain(BadRequest,
                   "Title and description are required for updating the todo.")>>)
    ELSE Await(c, "Todo.read")

createSubtodoBegin(c) ==
    IF ~isValidSubTodoProps(c.body.title)
    THEN Done(c, <<Plain(BadRequest,
                         "Request body must include title and description.")>>)
    ELSE Await(c, "SubTodo.create")

getSubTodoListBegin(c) ==
    LET statusFilter == searchParam(c.url, "status")
        sortBy == searchParam(c.url, "sortBy")
    IN  IF Truthy(statusFilter) /\ statusFilter \notin {"incomplete", "complete"}
        THEN Done(c, <<Plain(BadRequest, "Invalid status")>>)
        ELSE IF Truthy(sortBy) /\ sortBy \notin {"createdAt", "dueAt"}
        THEN Done(c, <<Plain(BadRequest, "Invalid sortBy parameter")>>)
        ELSE Await(c, "SubTodo.readAll")

completeSubTodoBegin(c) ==
    LET todoId == getId(c.url)
        subtodoId == getSubTodoId(c.url)
    IN  IF isNaN(todoId) \/ todoId.v <= 0 THEN Done(c, <<InvalidID>>)
        ELSE IF isNaN(subtodoId) \/ subtodoId.v <= 0 THEN Done(c, <<InvalidID>>)
        ELSE Await(c, "SubTodo.read")

\* the home page of the server
homeBegin(c) ==
    Done(c, <<Props(OK, "Homepage!", Some([home |-> TRUE]), Undef, Undef)>>)

\* the router calls the handler of the matched route
invoke(c) ==
    CASE c.handler = "home" -> homeBegin(c)
      [] c.handler = "getTodoList" -> getTodoListBegin(c)
      [] c.handler = "createTodo" -> createTodoBegin(c)
      [] c.handler = "sendFormCreate" -> sendFormCreateBegin(c)
      [] c.handler \in {"sendFormEdit", "getTodo", "deleteTodo", "completeTodo"}
           -> readByIdBegin(c)
      [] c.handler = "updateTodo" -> updateTodoBegin(c)
      [] c.handler = "createSubtodo" -> createSubtodoBegin(c)
      [] c.handler = "getSubTodoList" -> getSubTodoListBegin(c)
      [] c.handler = "completeSubTodo" -> completeSubTodoBegin(c)

----------------------------------------------------------------------------
(* Router.dispatch *)

\* The router builds the Request, parses a body that was sent, takes the
\* effective method and the path, and calls the first matching handler; a
\* body that does not parse is answered 400, no match is answered 404.
dispatch(c, routes) ==
    LET parsed == IF c.text = "empty" THEN Some(c.body)
                  ELSE parseBody(c.contentType, c.text, c.fields)
    IN  IF parsed = None
        THEN Done(c, <<Plain(BadRequest, "Request body must be valid JSON")>>)
        ELSE LET b == [c EXCEPT !.body = parsed[1]]
                 method == getMethod(b.body, b.method)
                 path == pathname(b.url)
                 i == findRoute(routes, method, path)
             IN  IF i = 0
                 THEN Done(b, <<Plain(NotFound, invalidRoute(method, path))>>)
                 ELSE invoke([b EXCEPT !.handler = routes[i].handler])

\* a request arrives on a free connection
Receive(s, requests) ==
    /\ conn[s].pc = "idle"
    /\ \E r \in requests : conn' = [conn EXCEPT ![s] = Conn("received", r)]
    /\ UNCHANGED <<storeVars, probe>>

Dispatch(s) ==
    /\ conn[s].pc = "received"
    /\ conn' = [conn EXCEPT ![s] = dispatch(@, Routes)]
    /\ UNCHANGED <<storeVars, probe>>

\* the handler has returned: the Request / Response pair is discarded
Finish(s) ==
    /\ conn[s].pc = "done"
    /\ conn' = [conn EXCEPT ![s] = Idle]
    /\ UNCHANGED <<storeVars, probe>>

----------------------------------------------------------------------------
(* TodoController: the handlers from each store call on.  `ok` is whether  *)
(* the store call resolves (TRUE) or rejects (FALSE).                      *)

At(s, handler, call) == conn[s].handler = handler /\ conn[s].pc = call

todoList(rows) ==
    Props(OK, "Todo list retrieved", Some([todos |-> rows]), "ListView", Undef)

getTodoListReadAll(s) ==
    /\ At(s, "getTodoList", "Todo.readAll")
    /\ \E ok \in BOOLEAN :
         conn' = [conn EXCEPT ![s] =
            IF ok
            THEN Done(@, <<todoList(TodoReadAll(searchParam(@.url, "status")))>>)
            ELSE Done(@, <<ErrorView("Internal Server Error"), todoList({})>>)]
    /\ UNCHANGED <<storeVars, probe>>

todoFound(todo) ==
    Props(OK, "Todo retrieved",
          Some([todo |-> todo.props, subtodos |-> todo.subTodos]),
          "ShowView", Undef)

getTodoRead(s) ==
    /\ At(s, "getTodo", "Todo.read")
    /\ \E ok \in BOOLEAN :
         LET todo == TodoRead(getId(conn[s].url).v)
             answer == IF ok /\ todo # None THEN todoFound(todo[1])
                       ELSE Plain(NotFound, "Not found")
         IN  conn' = [conn EXCEPT ![s] =
                IF ok THEN Done(@, <<answer>>)
                ELSE Done(@, <<ErrorView("Internal Server Error"), answer>>)]
    /\ UNCHANGED <<storeVars, probe>>

createTodoCreate(s) ==
    /\ At(s, "createTodo", "Todo.create")
    /\ \E ok \in BOOLEAN :
         LET c == conn[s]
             row == TodoRow(nextTodoId, c.body.title, c.body.description,
                            "incomplete", FALSE, FALSE)
         IN  IF ok
             THEN /\ nextTodoId <= MaxTodos
                  /\ todos' = todos \cup {row}
                  /\ nextTodoId' = nextTodoId + 1
                  /\ conn' = [conn EXCEPT ![s] =
                        Done(@, <<Props(Redirect, "Todo created successfully!",
                                        None, Undef,
                                        "/todos/" \o ToString(row.id))>>)]
             ELSE /\ conn' = [conn EXCEPT ![s] =
                        Done(@, <<ErrorView("Error while creating todo")>>)]
                  /\ UNCHANGED <<todos, nextTodoId>>
    /\ UNCHANGED <<subtodos, nextSubTodoId, probe>>

fetchError == ErrorView("Error while fetching todo for edit")

sendFormEditRead(s) ==
    /\ At(s, "sendFormEdit", "Todo.read")
    /\ \E ok \in BOOLEAN :
         LET c == conn[s]
             todo == TodoRead(getId(c.url).v)
             form == Props(OK, "Edit Todo", Some([todo |-> todo[1].props]),
                           "EditFormView", Undef)
         IN  conn' = [conn EXCEPT ![s] =
                IF ~ok THEN Done(@, <<fetchError>>)
                ELSE IF todo = None
                THEN Done(@, <<Plain(NotFound, "Todo not found")>>)
                ELSE IF c.body._method = "DELETE"
                THEN Await([Emit(@, <<form>>) EXCEPT !.todo = todo], "todo.delete")
                ELSE IF c.body._method = "PUT"
                THEN Await([Emit(@, <<form>>) EXCEPT !.todo = todo],
                           "todo.markComplete")
                ELSE Done(@, <<form>>)]
    /\ UNCHANGED <<storeVars, probe>>

\* Todo.delete: the rows deleted, with the cascade to subtodos
TodoDelete(id) ==
    /\ todos' = deleteTodos(id)
    /\ subtodos' = cascade(id)

sendFormEditDelete(s) ==
    /\ At(s, "sendFormEdit", "todo.delete")
    /\ \E ok \in BOOLEAN :
         LET id == conn[s].todo[1].props.id
             deleted == Props(Redirect, "Todo deleted successfully!", None,
                              Undef, "/todos")
             failed == Plain(InternalServerError, "Error while deleting todo")
         IN  IF ok
             THEN /\ TodoDelete(id)
                  /\ conn' = [conn EXCEPT ![s] =
                        Done(@, <<IF Cardinality(selectTodo(id)) = 1
                                  THEN deleted ELSE failed, fetchError>>)]
             ELSE /\ conn' = [conn EXCEPT ![s] = Done(@, <<fetchError>>)]
                  /\ UNCHANGED <<todos, subtodos>>
    /\ UNCHANGED <<nextTodoId, nextSubTodoId, probe>>

\* markComplete that does not set completedAt
completeStatusOnly == [status |-> "complete"]

\* Todo.markComplete: update({status: "complete", completedAt: now})
complete == [status |-> "complete", completedAt |-> TRUE]

sendFormEditMarkComplete(s) ==
    /\ At(s, "sendFormEdit", "todo.markComplete")
    /\ \E ok \in BOOLEAN :
         LET id == conn[s].todo[1].props.id
             completed == Props(Redirect, "Todo completed successfully!", None,
                                Undef, "/todos")
             failed == Plain(InternalServerError, "Error while deleting todo")
         IN  IF ok
             THEN /\ todos' = updateTodos(id, complete)
                  /\ conn' = [conn EXCEPT ![s] =
                        Done(@, <<completed, failed, fetchError>>)]
             ELSE /\ conn' = [conn EXCEPT ![s] = Done(@, <<failed, fetchError>>)]
                  /\ UNCHANGED todos
    /\ UNCHANGED <<subtodos, nextTodoId, nextSubTodoId, probe>>

\* const todo = await Todo.read(this.sql, id) inside the try of updateTodo,
\* deleteTodo and completeTodo: no row is answered 404, a rejection `error`
readThen(s, error, call) ==
    /\ \E ok \in BOOLEAN :
         LET todo == TodoRead(getId(conn[s].url).v)
         IN  conn' = [conn EXCEPT ![s] =
                IF ~ok THEN Done(@, <<error>>)
                ELSE IF todo = None THEN Done(@, <<Plain(NotFound, "Not found")>>)
                ELSE Await([@ EXCEPT !.todo = todo], call)]
    /\ UNCHANGED <<storeVars, probe>>

updateError == ErrorView("Error while updating todo")

updateTodoRead(s) ==
    /\ At(s, "updateTodo", "Todo.read")
    /\ readThen(s, updateError, "todo.update")

updateTodoUpdate(s) ==
    /\ At(s, "updateTodo", "todo.update")
    /\ \E ok \in BOOLEAN :
         LET c == conn[s]
             id == c.todo[1].props.id
             set == [title |-> c.body.title,
                     description |-> c.body.description]
         IN  IF ok
             THEN /\ todos' = updateTodos(id, set)
                  /\ conn' = [conn EXCEPT ![s] =
                        Done(@, <<Props(Redirect, "Todo updated successfully!",
                                        None, Undef,
                                        "/todos/" \o ToString(id))>>)]
             ELSE /\ conn' = [conn EXCEPT ![s] = Done(@, <<updateError>>)]
                  /\ UNCHANGED todos
    /\ UNCHANGED <<subtodos, nextTodoId, nextSubTodoId, probe>>

deleteError == ErrorView("Error while deleting todo")

deleteTodoRead(s) ==
    /\ At(s, "deleteTodo", "Todo.read")
    /\ readThen(s, deleteError, "todo.delete")

\* deleteTodo answering success whenever the DELETE statement resolves
deleteTodoDeleteAlways(s) ==
    /\ At(s, "deleteTodo", "todo.delete")
    /\ \E ok \in BOOLEAN :
         LET id == conn[s].todo[1].props.id
         IN  IF ok
             THEN /\ TodoDelete(id)
                  /\ conn' = [conn EXCEPT ![s] =
                        Done(@, <<Props(Redirect, "Todo deleted successfully!",
                                        None, Undef, "/todos")>>)]
             ELSE /\ conn' = [conn EXCEPT ![s] = Done(@, <<deleteError>>)]
                  /\ UNCHANGED <<todos, subtodos>>
    /\ UNCHANGED <<nextTodoId, nextSubTodoId, probe>>

deleteTodoDelete(s) ==
    /\ At(s, "deleteTodo", "todo.delete")
    /\ \E ok \in BOOLEAN :
         LET id == conn[s].todo[1].props.id
         IN  IF ok
             THEN /\ TodoDelete(id)
                  /\ conn' = [conn EXCEPT ![s] =
                        Done(@, <<IF Cardinality(selectTodo(id)) = 1
                                  THEN Props(Redirect, "Todo deleted successfully!",
                                             None, Undef, "/todos")
                                  ELSE Plain(InternalServerError,
                                             "Error while deleting todo.")>>)]
             ELSE /\ conn' = [conn EXCEPT ![s] = Done(@, <<deleteError>>)]
                  /\ UNCHANGED <<todos, subtodos>>
    /\ UNCHANGED <<nextTodoId, nextSubTodoId, probe>>

completeError == ErrorView("Error while marking todo as complete")

completeTodoRead(s) ==
    /\ At(s, "completeTodo", "Todo.read")
    /\ readThen(s, completeError, "todo.markComplete")

completeTodoMarkComplete(s) ==
    /\ At(s, "completeTodo", "todo.markComplete")
    /\ \E ok \in BOOLEAN :
         LET id == conn[s].todo[1].props.id
         IN  IF ok
             THEN /\ todos' = updateTodos(id, complete)
                  /\ conn' = [conn EXCEPT ![s] =
                        Done(@, <<Props(Redirect, "Todo marked as complete!",
                                        Some([markComplete |-> "check"]), Undef,
                                        "/todos/" \o ToString(id))>>)]
             ELSE /\ conn' = [conn EXCEPT ![s] = Done(@, <<completeError>>)]
                  /\ UNCHANGED todos
    /\ UNCHANGED <<subtodos, nextTodoId, nextSubTodoId, probe>>

----------------------------------------------------------------------------
(* SubTodoController: the handlers from each store call on *)

serverError == ErrorView("Internal Server Error")

createSubtodoCreate(s) ==
    /\ At(s, "createSubtodo", "SubTodo.create")
    /\ \E ok \in BOOLEAN :
         LET c == conn[s]
             todoId == getId(c.url)
             row == SubTodoRow(nextSubTodoId, c.body.title, "incomplete",
                               FALSE, orNull(todoId))
         IN  IF ok
             THEN /\ subTodoInsertable(row.title, row.todoId)
                  /\ nextSubTodoId <= MaxSubTodos
                  /\ subtodos' = subtodos \cup {row}
                  /\ nextSubTodoId' = nextSubTodoId + 1
                  /\ conn' = [conn EXCEPT ![s] =
                        Done(@, <<Props(Redirect, "SubTodo created successfully!",
                                        None, Undef,
                                        "/todos/" \o Str(todoId))>>)]
             ELSE /\ conn' = [conn EXCEPT ![s] = Done(@, <<serverError>>)]
                  /\ UNCHANGED <<subtodos, nextSubTodoId>>
    /\ UNCHANGED <<todos, nextTodoId, probe>>

getSubTodoListReadAll(s) ==
    /\ At(s, "getSubTodoList", "SubTodo.readAll")
    /\ \E ok \in BOOLEAN :
         conn' = [conn EXCEPT ![s] =
            IF ok
            THEN Done(@, <<Props(Redirect, "SubTodo list retrieved",
                           Some([subtodosArray |->
                                   SubTodoReadAll(searchParam(@.url, "status"))]),
                           Undef, "/todos/" \o Str(getId(@.url)))>>)
            ELSE Done(@, <<serverError>>)]
    /\ UNCHANGED <<storeVars, probe>>

completeSubTodoRead(s) ==
    /\ At(s, "completeSubTodo", "SubTodo.read")
    /\ \E ok \in BOOLEAN :
         LET rows == selectSubTodo(getSubTodoId(conn[s].url).v)
         IN  conn' = [conn EXCEPT ![s] =
                IF ~ok THEN Done(@, <<serverError>>)
                ELSE IF rows = {}
                THEN Done(@, <<Plain(NotFound, "SubTodo not found")>>)
                ELSE Await([@ EXCEPT !.todo = Some([props |-> CHOOSE t \in rows : TRUE])],
                           "subtodo.markComplete")]
    /\ UNCHANGED <<storeVars, probe>>

\* SubTodo.markComplete: the update rejects when it returns no row
completeSubTodoMarkComplete(s) ==
    /\ At(s, "completeSubTodo", "subtodo.markComplete")
    /\ \E ok \in BOOLEAN :
         LET c == conn[s]
             id == c.todo[1].props.id
         IN  IF ok
             THEN /\ selectSubTodo(id) # {}
                  /\ subtodos' = updateSubTodos(id, complete)
                  /\ conn' = [conn EXCEPT ![s] =
                        Done(@, <<Props(Redirect, "SubTodo marked as complete!",
                                        None, Undef,
                                        "/todos/" \o Str(getId(c.url)))>>)]
             ELSE /\ conn' = [conn EXCEPT ![s] = Done(@, <<serverError>>)]
                  /\ UNCHANGED subtodos
    /\ UNCHANGED <<todos, nextTodoId, nextSubTodoId, probe>>

\* one step of the handler of connection s
Handle(s) ==
    \/ getTodoListReadAll(s)
    \/ getTodoRead(s)
    \/ createTodoCreate(s)
    \/ sendFormEditRead(s)
    \/ sendFormEditDelete(s)
    \/ sendFormEditMarkComplete(s)
    \/ updateTodoRead(s)
    \/ updateTodoUpdate(s)
    \/ deleteTodoRead(s)
    \/ deleteTodoDelete(s)
    \/ completeTodoRead(s)
    \/ completeTodoMarkComplete(s)
    \/ createSubtodoCreate(s)
    \/ getSubTodoListReadAll(s)
    \/ completeSubTodoRead(s)
    \/ completeSubTodoMarkComplete(s)

----------------------------------------------------------------------------
(* The server: requests are handled one connection at a time *)

NoProbe == [kind |-> "none"]

NoAccept == None

AcceptsHtml == Some(<<HTML, "application/xhtml+xml">>)

Json(fields) == [text |-> "object", fields |-> fields]

NoBody == [text |-> "empty", fields |-> EmptyBody]

\* the requests sent to the server: method, raw URL and body
Calls ==
    { <<"GET", <<"/", "todos">>, NoBody>>,
      <<"GET", <<"/", "todos", "?status=complete">>, NoBody>>,
      <<"GET", <<"/", "todos", "?status=incomplete">>, NoBody>>,
      <<"GET", <<"/", "todos", "?status=abc">>, NoBody>>,
      <<"POST", <<"/", "todos">>, Json(Body("A", "D", Undef, Undef))>>,
      <<"POST", <<"/", "todos">>, Json(Body(Undef, "D", Undef, Undef))>>,
      <<"POST", <<"/", "todos">>, Json(Body("", "D", Undef, Undef))>>,
      <<"POST", <<"/", "todos">>, Json(Body("A", Undef, Undef, Undef))>>,
      <<"GET", <<"/", "todos", "/", "new">>, NoBody>>,
      <<"GET", <<"/", "todos", "/", "1", "/", "edit">>, NoBody>>,
      <<"GET", <<"/", "todos", "/", "1", "/", "edit">>,
        Json(Body(Undef, Undef, Undef, "DELETE"))>>,
      <<"GET", <<"/", "todos", "/", "1", "/", "edit">>,
        Json(Body(Undef, Undef, Undef, "PUT"))>>,
      <<"GET", <<"/", "todos", "/", "1">>, NoBody>>,
      <<"GET", <<"/", "todos", "/", "2">>, NoBody>>,
      <<"GET", <<"/", "todos", "/", "abc">>, NoBody>>,
      <<"GET", <<"/", "todos", "/">>, NoBody>>,
      <<"PUT", <<"/", "todos", "/", "1">>, Json(Body("B", "D", Undef, Undef))>>,
      <<"PUT", <<"/", "todos", "/", "1">>, Json(Body("B", Undef, Undef, Undef))>>,
      <<"DELETE", <<"/", "todos", "/", "1">>, NoBody>>,
      <<"POST", <<"/", "todos", "/", "2">>,
        Json(Body(Undef, Undef, "DELETE", Undef))>>,
      <<"POST", <<"/", "todos", "/", "2">>,
        Json(Body(Undef, Undef, Undef, "DELETE"))>>,
      <<"PUT", <<"/", "todos", "/", "1", "/", "complete">>, NoBody>>,
      <<"POST", <<"/", "todos", "/", "1", "/", "subtodos">>,
        Json(Body("S", Undef, Undef, Undef))>>,
      <<"POST", <<"/", "todos", "/", "abc", "/", "subtodos">>,
        Json(Body("S", Undef, Undef, Undef))>>,
      <<"POST", <<"/", "todos", "/", "1", "/", "subtodos">>,
        Json(Body(Undef, Undef, Undef, Undef))>>,
      <<"GET", <<"/", "todos", "/", "1", "/", "subtodos">>, NoBody>>,
      <<"PUT", <<"/", "todos", "/", "1", "/", "subtodos", "/", "1", "/",
                 "complete">>, NoBody>>,
      <<"PUT", <<"/", "todos", "/", "2", "/", "subtodos", "/", "1", "/",
                 "complete">>, NoBody>>,
      <<"GET", <<"/">>, NoBody>>,
      <<"GET", <<"/", "tods">>, NoBody>> }

Requests ==
    { Req(call[1], call[2], accept, "json", call[3].text, call[3].fields) :
        call \in Calls, accept \in {NoAccept, AcceptsHtml} }

Init ==
    /\ todos = {}
    /\ subtodos = {}
    /\ nextTodoId = 1
    /\ nextSubTodoId = 1
    /\ conn = [s \in Slots |-> Idle]
    /\ probe = NoProbe

Next ==
    \/ Receive(1, Requests)
    \/ Dispatch(1)
    \/ Handle(1)
    \/ Finish(1)

Spec == Init /\ [][Next]_vars

\* every store call eventually resolves or rejects
FairSpec == Spec /\ WF_vars(Handle(1))

----------------------------------------------------------------------------
(* Response.send on its own: every descriptor, every Accept header *)

AcceptHeaders ==
    { None, Some(<<>>), Some(<<JSON>>), Some(<<HTML>>), Some(<<"*/*">>),
      Some(<<HTML, "application/xhtml+xml">>), Some(<<JSON, HTML>>) }

Descriptors ==
    [statusCode : StatusCodes, message : {"m"},
     payload : {None, Some([x |-> 1])},
     template : {Undef, "", "ErrorView"},
     redirect : {Undef, "", "/todos/1"}]

InitSend ==
    /\ todos = {}
    /\ subtodos = {}
    /\ nextTodoId = 1
    /\ nextSubTodoId = 1
    /\ conn = [s \in Slots |-> Idle]
    /\ probe \in [kind : {"send"}, accept : AcceptHeaders, props : Descriptors,
                  out : {None}]

ResponseSend ==
    /\ probe.kind = "send"
    /\ probe.out = None
    /\ probe' = [probe EXCEPT !.out = Some(send(probe.accept, probe.props))]
    /\ UNCHANGED <<storeVars, conn>>

SpecSend == InitSend /\ [][ResponseSend]_vars

----------------------------------------------------------------------------
(* The router on its own: every request, up to the call of the handler *)

Urls ==
    { <<"/">>,
      <<"/", "todos">>,
      <<"/", "todos", "?status=complete">>,
      <<"/", "todos", "/">>,
      <<"/", "todos", "/", "new">>,
      <<"/", "todos", "/", "1">>,
      <<"/", "todos", "/", "2">>,
      <<"/", "todos", "/", "abc">>,
      <<"/", "todos", "/", "1", "?x=1">>,
      <<"/", "todos", "/", "1", "/", "edit">>,
      <<"/", "todos", "/", "new", "/", "edit">>,
      <<"/", "todos", "/", "1", "/", "complete">>,
      <<"/", "todos", "/", "1", "/", "subtodos">>,
      <<"/", "todos", "/", "abc", "/", "subtodos">>,
      <<"/", "todos", "/", "1", "/", "subtodos", "/", "1">>,
      <<"/", "todos", "/", "1", "/", "subtodos", "/", "2", "/", "complete">>,
      <<"/", "todos", "/", "1", "/", "subtodos", "/", "/", "complete">>,
      <<"/", "todos", "/", "1", "/", "subtodos", "/", "x", "/", "complete">>,
      <<"/", "tods">>,
      <<"/", "unregistered">>,
      <<"/", "todos", "/", "1", "/">>,
      <<"/", "1", "/", "todos">> }

Overrides == {Undef, Null, "", "GET", "PUT", "DELETE"}

Fields ==
    [title : {Undef, "A"}, description : {"D"}, method : Overrides,
     _method : {Undef, "PUT", "DELETE"}]

Texts ==
    {[contentType |-> "json", text |-> "empty", fields |-> EmptyBody],
     [contentType |-> "json", text |-> "garbage", fields |-> EmptyBody],
     [contentType |-> "x-www-form-urlencoded", text |-> "garbage",
      fields |-> EmptyBody]}
    \cup [contentType : {"json", "x-www-form-urlencoded"}, text : {"object"},
          fields : Fields]

RouterRequests ==
    { Req(method, url, accept, t.contentType, t.text, t.fields) :
        method \in Methods, url \in Urls, accept \in {NoAccept, AcceptsHtml},
        t \in Texts }

InitRouter ==
    /\ todos = {}
    /\ subtodos = {}
    /\ nextTodoId = 1
    /\ nextSubTodoId = 1
    /\ conn \in {[s \in Slots |-> IF s = 1 THEN Conn("received", r) ELSE Idle] :
                   r \in RouterRequests}
    /\ probe = NoProbe

SpecRouter == InitRouter /\ [][Dispatch(1)]_vars

----------------------------------------------------------------------------
(* The Request adapter on its own: parseBody and the getters *)

InitRequest ==
    /\ todos = {}
    /\ subtodos = {}
    /\ nextTodoId = 1
    /\ nextSubTodoId = 1
    /\ conn = [s \in Slots |-> Idle]
    /\ probe \in { [kind |-> "request", method |-> method, url |-> url,
                    contentType |-> t.contentType, text |-> t.text,
                    fields |-> t.fields, body |-> EmptyBody,
                    parsed |-> "pending", got |-> None] :
                    method \in Methods, url \in Urls, t \in Texts }

\* the transport signals end-of-stream: parseBody resolves or rejects
RequestParseBody ==
    /\ probe.kind = "request"
    /\ probe.parsed = "pending"
    /\ LET body == parseBody(probe.contentType, probe.text, probe.fields)
       IN  probe' = IF body = None
                    THEN [probe EXCEPT !.parsed = "rejected"]
                    ELSE [probe EXCEPT !.parsed = "resolved", !.body = body[1]]
    /\ UNCHANGED <<storeVars, conn>>

\* a caller reads the method and the ids, before or after parseBody
RequestGet ==
    /\ probe.kind = "request"
    /\ probe.got = None
    /\ probe' = [probe EXCEPT !.got =
                    Some([method |-> getMethod(probe.body, probe.method),
                          id |-> getId(probe.url),
                          subTodoId |-> getSubTodoId(probe.url),
                          populated |-> probe.parsed = "resolved"])]
    /\ UNCHANGED <<storeVars, conn>>

NextRequest == RequestParseBody \/ RequestGet

SpecRequest == InitRequest /\ [][NextRequest]_vars

----------------------------------------------------------------------------
(* Request.parseBody on its own: the data and end events of the transport *)

\* the number of chunks in which a non-empty body is delivered
MaxChunks == 2

Chunks(text) == IF text = "empty" THEN 0 ELSE MaxChunks

\* bodyRaw after n chunks of `text`: nothing, a truncated text, or the text
bodyRaw(text, n) ==
    IF n = 0 THEN "empty" ELSE IF n < Chunks(text) THEN "garbage" ELSE text

InitParseBody ==
    /\ todos = {}
    /\ subtodos = {}
    /\ nextTodoId = 1
    /\ nextSubTodoId = 1
    /\ conn = [s \in Slots |-> Idle]
    /\ probe \in { [kind |-> "parseBody", contentType |-> t.contentType,
                    text |-> t.text, fields |-> t.fields, received |-> 0,
                    ended |-> FALSE, body |-> EmptyBody,
                    settled |-> "pending", error |-> Undef] : t \in Texts }

\* this.req.on("data"): bodyRaw += chunk
RequestOnData ==
    /\ probe.kind = "parseBody"
    /\ ~probe.ended
    /\ probe.received < Chunks(probe.text)
    /\ probe' = [probe EXCEPT !.received = @ + 1]
    /\ UNCHANGED <<storeVars, conn>>

\* this.req.on("end"): parse bodyRaw; reject in the catch, else set
\* this.body and resolve
RequestOnEnd ==
    /\ probe.kind = "parseBody"
    /\ ~probe.ended
    /\ probe.received = Chunks(probe.text)
    /\ LET body == parseBody(probe.contentType,
                             bodyRaw(probe.text, probe.received), probe.fields)
       IN  probe' = IF body = None
                    THEN [probe EXCEPT !.ended = TRUE, !.settled = "rejected",
                             !.error = "Request body must be valid JSON"]
                    ELSE [probe EXCEPT !.ended = TRUE, !.settled = "resolved",
                             !.body = body[1]]
    /\ UNCHANGED <<storeVars, conn>>

NextParseBody == RequestOnData \/ RequestOnEnd

SpecParseBody == InitParseBody /\ [][NextParseBody]_vars

----------------------------------------------------------------------------
(* Concurrent requests: two connections whose handlers interleave at their *)
(* store calls, each DELETE /todos/:id                                     *)

DeleteRequests ==
    { Req("DELETE", url, accept, "json", "empty", EmptyBody) :
        url \in {<<"/", "todos", "/", "1">>, <<"/", "todos", "/", "2">>},
        accept \in {NoAccept, AcceptsHtml} }

\* a store that holds the todos 1..MaxTodos and a subtodo of todo 1
InitDelete ==
    /\ todos = {TodoRow(id, "A", "D", "incomplete", FALSE, FALSE) :
                  id \in 1..MaxTodos}
    /\ subtodos = {SubTodoRow(1, "S", "incomplete", FALSE, Some(1))}
    /\ nextTodoId = MaxTodos + 1
    /\ nextSubTodoId = 2
    /\ conn = [s \in Slots |-> Idle]
    /\ probe = NoProbe

NextDelete ==
    \E s \in Slots :
        \/ Receive(s, DeleteRequests)
        \/ Dispatch(s)
        \/ deleteTodoRead(s)
        \/ deleteTodoDelete(s)

SpecDelete == InitDelete /\ [][NextDelete]_vars

----------------------------------------------------------------------------
(* The Todo model on its own: Todo instances held by callers, each with   *)
(* its in-memory props.subTodos, over the store                           *)

Instances == {1, 2}

\* a Todo instance: the id of its row and props.subTodos, the ids of the
\* SubTodo instances it holds (None while props.subTodos is undefined)
Instance(id, subTodos) == [id |-> id, subTodos |-> subTodos]

InitTodo ==
    /\ todos = {}
    /\ subtodos = {}
    /\ nextTodoId = 1
    /\ nextSubTodoId = 1
    /\ conn = [s \in Slots |-> Idle]
    /\ probe = [kind |-> "todo", instance |-> [i \in Instances |-> None],
                last |-> None]

\* todo = await Todo.create(sql, props): props.subTodos stays undefined
TodoCreate(i) ==
    /\ probe.kind = "todo"
    /\ nextTodoId <= MaxTodos
    /\ todos' = todos \cup
          {TodoRow(nextTodoId, "A", "D", "incomplete", FALSE, FALSE)}
    /\ nextTodoId' = nextTodoId + 1
    /\ probe' = [probe EXCEPT !.instance[i] = Some(Instance(nextTodoId, None)),
                              !.last = None]
    /\ UNCHANGED <<subtodos, nextSubTodoId, conn>>

\* todo = await Todo.read(sql, id): props.subTodos is the result of
\* SubTodo.readByTodoId at the time of the read
TodoReadInstance(i) ==
    /\ probe.kind = "todo"
    /\ \E t \in todos :
          probe' = [probe EXCEPT
                      !.instance[i] =
                          Some(Instance(t.id, Some({st.id : st \in readByTodoId(t.id)}))),
                      !.last = None]
    /\ UNCHANGED <<storeVars, conn>>

\* todo.addSubTodo(props) with props.todoId the id of the todo
addSubTodo(i) ==
    /\ probe.kind = "todo"
    /\ probe.instance[i] # None
    /\ nextSubTodoId <= MaxSubTodos
    /\ LET todo == probe.instance[i][1]
           held == IF todo.subTodos = None THEN {} ELSE todo.subTodos[1]
       IN  /\ subTodoInsertable("S", Some(todo.id))
           /\ subtodos' = subtodos \cup
                 {SubTodoRow(nextSubTodoId, "S", "incomplete", FALSE, Some(todo.id))}
           /\ probe' = [probe EXCEPT
                          !.instance[i] =
                              Some(Instance(todo.id, Some(held \cup {nextSubTodoId}))),
                          !.last = None]
    /\ nextSubTodoId' = nextSubTodoId + 1
    /\ UNCHANGED <<todos, nextTodoId, conn>>

\* todo.listSubTodos(): SubTodo.readByTodoId(this.sql, this.props.id || 0)
listSubTodos(todo) == readByTodoId(todo.id)

\* todo.removeSubTodo(subTodoId): the subtodo is looked up in props.subTodos;
\* when found it is spliced out and its row deleted, and SubTodo.delete
\* rejects when no row was deleted; when not found nothing is done
removeSubTodo(i, subTodoId) ==
    /\ probe.kind = "todo"
    /\ probe.instance[i] # None
    /\ LET todo == probe.instance[i][1]
           found == todo.subTodos # None /\ subTodoId \in todo.subTodos[1]
           held == subTodoId \in {st.id : st \in listSubTodos(todo)}
       IN  /\ subtodos' = IF found THEN {st \in subtodos : st.id # subTodoId}
                          ELSE subtodos
           /\ probe' = [probe EXCEPT
                          !.instance[i] =
                              IF found
                              THEN Some(Instance(todo.id,
                                                 Some(todo.subTodos[1] \ {subTodoId})))
                              ELSE @,
                          !.last = Some([todo |-> todo.id, subTodoId |-> subTodoId,
                                         held |-> held,
                                         resolved |-> ~found \/ selectSubTodo(subTodoId) # {}])]
    /\ UNCHANGED <<todos, nextTodoId, nextSubTodoId, conn>>

NextTodo ==
    \E i \in Instances :
        \/ TodoCreate(i)
        \/ TodoReadInstance(i)
        \/ addSubTodo(i)
        \/ \E subTodoId \in 1..MaxSubTodos : removeSubTodo(i, subTodoId)

SpecTodo == InitTodo /\ [][NextTodo]_vars

----------------------------------------------------------------------------
(* The query of GET /todos on its own: the validation of getTodoList and  *)
(* the ORDER BY clause of Todo.readAll, for every combination of values   *)

StatusValues == {Undef, "", "incomplete", "complete", "abc"}

SortByValues ==
    {Undef, "", "id", "title", "description", "status", "dueAt", "createdAt",
     "completedAt", "editedAt", "updatedAt", "abc"}

OrderByValues == {Undef, "asc", "desc", "up"}

InitQuery ==
    /\ todos = {}
    /\ subtodos = {}
    /\ nextTodoId = 1
    /\ nextSubTodoId = 1
    /\ conn = [s \in Slots |-> Idle]
    /\ probe \in [kind : {"query"}, status : StatusValues, sortBy : SortByValues,
                  orderBy : OrderByValues, out : {None}]

\* getTodoList up to the query of Todo.readAll
GetTodoListQuery ==
    /\ probe.kind = "query"
    /\ probe.out = None
    /\ LET invalid == getTodoListQuery(probe.status, probe.sortBy, probe.orderBy)
       IN  probe' = [probe EXCEPT !.out =
              Some([invalid |-> invalid,
                    orderBy |-> IF invalid # Undef
                                THEN orderByClause(Undef, Undef)
                                ELSE orderByClause(orElse(probe.sortBy, "id"),
                                                   orElse(probe.orderBy, "asc"))])]
    /\ UNCHANGED <<storeVars, conn>>

SpecQuery == InitQuery /\ [][GetTodoListQuery]_vars

----------------------------------------------------------------------------
(* Properties *)

\* C1: in every handler, for every outcome of its store calls and every
\* request body, Response.send is invoked at most once per request.
SendAtMostOnce == \A s \in Slots : Len(conn[s].sends) <= 1

\* C2: every invocation of a handler calls Response.send at least once before
\* it returns, on every path, provided every store call settles: from the
\* call of the handler on, the connection reaches a state in which send was
\* called (a handler that returned without a send never reaches one).
HandlerSends ==
    (conn[1].handler # Undef) ~> (Len(conn[1].sends) >= 1)

\* C2 witness: createTodo has returned after the store rejected the insert,
\* and its one send is the 500
HandlerSendsWitness ==
    \E s \in Slots :
        /\ conn[s].handler = "createTodo"
        /\ conn[s].pc = "done"
        /\ Len(conn[s].sends) = 1
        /\ conn[s].sends[1].statusCode = InternalServerError

\* C3: for a client that accepts HTML, a descriptor with a redirect is
\* answered 302 with the Location header and an empty body, whatever its
\* status code and template; otherwise a descriptor with a template is
\* answered with its own status code, an HTML content type and the rendered
\* template.
SendHtml ==
    probe.out # None /\ probe.accept # None
    /\ (\E i \in 1..Len(probe.accept[1]) : probe.accept[1][i] = "text/html")
    => LET p == probe.props
           w == probe.out[1]
       IN  /\ p.redirect \notin {Undef, ""}
              => /\ w.status = 302
                 /\ w.location = p.redirect
                 /\ w.kind = "empty"
                 /\ w.contentType = Undef
           /\ p.redirect \in {Undef, ""} /\ p.template \notin {Undef, ""}
              => /\ w.status = p.statusCode
                 /\ w.contentType = "text/html"
                 /\ w.kind = "html"
                 /\ w.markup = [template |-> p.template, payload |-> p.payload]
                 /\ w.location = Undef

\* C3 witness: an HTML client was sent a 500 descriptor that has both a
\* redirect and a template, and got the 302
SendHtmlWitness ==
    /\ probe.kind = "send"
    /\ probe.out # None
    /\ probe.accept = Some(<<"text/html">>)
    /\ probe.props.statusCode = 500
    /\ probe.props.template = "ErrorView"
    /\ probe.props.redirect = "/todos/1"
    /\ probe.out[1].status = 302

\* C4: the response is JSON (the descriptor's status code, a JSON content
\* type, the body {message, payload}, no Location header) exactly when the
\* client does not accept HTML, or accepts it and the descriptor has neither
\* a redirect nor a template.
SendJson ==
    probe.out # None
    => LET p == probe.props
           w == probe.out[1]
           html == /\ probe.accept # None
                   /\ \E i \in 1..Len(probe.accept[1]) :
                         probe.accept[1][i] = "text/html"
           bare == p.redirect \in {Undef, ""} /\ p.template \in {Undef, ""}
       IN  /\ w.kind = "json" <=> (~html \/ bare)
           /\ w.kind = "json"
              => /\ w.status = p.statusCode
                 /\ w.contentType = "application/json"
                 /\ w.location = Undef
                 /\ w.json.message = p.message
                 /\ w.json.payload = p.payload
                 /\ "message" \in w.json.keys

\* C4 witness: {statusCode: 302, redirect} sent to a JSON-only client is a
\* 302 with a JSON body and no Location header
SendJsonWitness ==
    /\ probe.kind = "send"
    /\ probe.out # None
    /\ probe.accept = Some(<<"application/json">>)
    /\ probe.props.statusCode = 302
    /\ probe.props.redirect = "/todos/1"
    /\ probe.out[1].status = 302
    /\ probe.out[1].kind = "json"
    /\ probe.out[1].location = Undef

\* the router has dispatched the request of connection s, whose body parsed
Routed(s) ==
    /\ conn[s].pc \notin {"idle", "received"}
    /\ \/ conn[s].text = "empty"
       \/ conn[s].contentType = "x-www-form-urlencoded"
       \/ conn[s].text = "object"

\* the method and path the router matches the request of connection s on
EffectiveMethod(s) ==
    IF conn[s].body.method \in {Undef, Null} THEN conn[s].method
    ELSE conn[s].body.method

Path(s) == pathname(conn[s].url)

\* the structural match of C6: equal methods, equal segment counts, equal
\* literal segments
Matches(route, method, path) ==
    /\ route.method = method
    /\ Len(split(route.path)) = Len(split(path))
    /\ \A i \in 1..Len(split(route.path)) :
          split(route.path)[i] \notin {<<":id">>, <<":subid">>}
          => split(route.path)[i] = split(path)[i]

\* C5: a request whose effective method and path match no registered route
\* is answered 404 with the message `Invalid route: <METHOD> <path>` and no
\* payload key, and no handler is invoked.
RoutingMiss ==
    \A s \in Slots :
        Routed(s)
        /\ (\A i \in 1..Len(Routes) :
               ~Matches(Routes[i], EffectiveMethod(s), Path(s)))
        => /\ conn[s].handler = Undef
           /\ conn[s].pc = "done"
           /\ Len(conn[s].sends) = 1
           /\ conn[s].wire[1].status = 404
           /\ conn[s].wire[1].kind = "json"
           /\ conn[s].wire[1].json.keys = {"message"}
           /\ conn[s].wire[1].json.message =
                 "Invalid route: " \o EffectiveMethod(s) \o " " \o join(Path(s))
           /\ conn[s].method = "GET" /\ conn[s].body.method = Undef
              /\ conn[s].url = <<"/", "unregistered">>
              => conn[s].wire[1].json.message = "Invalid route: GET /unregistered"

\* C5 witness: GET /tods was answered 404 `Invalid route: GET /tods`
RoutingMissWitness ==
    \E s \in Slots :
        /\ conn[s].pc = "done"
        /\ conn[s].handler = Undef
        /\ conn[s].method = "GET"
        /\ conn[s].url = <<"/", "tods">>
        /\ conn[s].wire # None
        /\ conn[s].wire[1].status = 404
        /\ conn[s].wire[1].json.message = "Invalid route: GET /tods"

\* C6: a route matches a request only if the methods are equal, the segment
\* counts are equal and every literal segment equals the segment of the
\* request; a dynamic segment matches any non-empty value.
RouteMatching ==
    \A s \in Slots :
        Routed(s)
        => /\ conn[s].handler # Undef
              => \E i \in 1..Len(Routes) :
                    /\ Routes[i].handler = conn[s].handler
                    /\ Matches(Routes[i], EffectiveMethod(s), Path(s))
           /\ (\E i \in 1..Len(Routes) :
                  /\ Matches(Routes[i], EffectiveMethod(s), Path(s))
                  /\ \A k \in 1..Len(split(Routes[i].path)) :
                        split(Routes[i].path)[k] \in {<<":id">>, <<":subid">>}
                        => split(Path(s))[k] # <<>>)
              => conn[s].handler # Undef

\* C6 witness: PUT /todos/1/subtodos/x/complete reached completeSubTodo, its
\* dynamic segments taking the values 1 and x
RouteMatchingWitness ==
    \E s \in Slots :
        /\ conn[s].handler = "completeSubTodo"
        /\ conn[s].method = "PUT"
        /\ conn[s].url = <<"/", "todos", "/", "1", "/", "subtodos", "/", "x",
                           "/", "complete">>

\* C7: the handler called is that of the earliest registered route among
\* those that match; GET /todos/new goes to sendFormCreate, never to getTodo,
\* and GET /todos/<n>/edit goes to sendFormEdit.
FirstMatchWins ==
    \A s \in Slots :
        Routed(s)
        => /\ conn[s].handler # Undef
              => \E i \in 1..Len(Routes) :
                    /\ Routes[i].handler = conn[s].handler
                    /\ Matches(Routes[i], EffectiveMethod(s), Path(s))
                    /\ \A j \in 1..(i - 1) :
                          ~Matches(Routes[j], EffectiveMethod(s), Path(s))
           /\ EffectiveMethod(s) = "GET" /\ Path(s) = <<"/", "todos", "/", "new">>
              => conn[s].handler = "sendFormCreate"
           /\ EffectiveMethod(s) = "GET"
              /\ Path(s) \in {<<"/", "todos", "/", n, "/", "edit">> :
                                n \in {"1", "2", "new", "abc"}}
              => conn[s].handler = "sendFormEdit"

\* C7 witness: GET /todos/new was dispatched to sendFormCreate although the
\* later route /todos/:id matches it as well
FirstMatchWinsWitness ==
    \E s \in Slots :
        /\ conn[s].handler = "sendFormCreate"
        /\ conn[s].method = "GET"
        /\ conn[s].url = <<"/", "todos", "/", "new">>
        /\ Matches(Route("GET", <<"/", "todos", "/", ":id">>, "getTodo"),
                   "GET", Path(s))

GetMethodNonEmpty ==
    probe.kind = "request" /\ probe.got # None
    => IF probe.got[1].populated /\ probe.body.method \notin {Undef, Null, ""}
       THEN probe.got[1].method = probe.body.method
       ELSE probe.got[1].method = probe.method

\* C9 amended: getMethod returns the `method` field of the parsed body
\* whenever the field is present and not null, the empty string included, and
\* the transport-level method when the field is absent or null; before
\* parseBody has populated the body it returns the transport method.
GetMethod ==
    probe.kind = "request" /\ probe.got # None
    => IF probe.got[1].populated /\ probe.body.method \notin {Undef, Null}
       THEN probe.got[1].method = probe.body.method
       ELSE probe.got[1].method = probe.method

\* C9 witness: the parsed body carries method "" and getMethod returned "",
\* the transport method being POST
GetMethodWitness ==
    /\ probe.kind = "request"
    /\ probe.got # None
    /\ probe.got[1].populated
    /\ probe.method = "POST"
    /\ probe.body.method = ""
    /\ probe.got[1].method = ""

\* C10: getId (segment 2) and getSubTodoId (segment 4) return NaN whenever
\* the segment of the raw URL split on "/" is absent, empty or not a number,
\* and the number when the segment is numeric.
IdIsNaNUnlessNumeric ==
    probe.kind = "request" /\ probe.got # None
    => LET parts == split(probe.url)
           numeric(i) == /\ i <= Len(parts)
                         /\ Len(parts[i]) = 1
                         /\ parts[i][1] \in {"0", "1", "2", "3"}
       IN  /\ ~numeric(3) => probe.got[1].id.nan
           /\ numeric(3) => /\ ~probe.got[1].id.nan
                            /\ ToString(probe.got[1].id.v) = parts[3][1]
           /\ ~numeric(5) => probe.got[1].subTodoId.nan
           /\ numeric(5) => /\ ~probe.got[1].subTodoId.nan
                            /\ ToString(probe.got[1].subTodoId.v) = parts[5][1]

----------------------------------------------------------------------------
(* Properties of the handlers *)

\* the handlers of the routes whose pattern contains :id
IdHandlers ==
    {"getTodo", "updateTodo", "deleteTodo", "sendFormEdit", "completeTodo",
     "createSubtodo", "getSubTodoList", "completeSubTodo"}

\* C11: on every registered route containing :id, a request whose id segment
\* is not numeric is answered 400 "Invalid ID" without payload, and its
\* handler returns without a store call (the store is neither read nor
\* changed).
InvalidIdRejected ==
    \A s \in Slots :
        conn[s].handler \in IdHandlers /\ isNaN(getId(conn[s].url))
        => /\ conn[s].pc = "done"
           /\ conn[s].sends = <<InvalidID>>
           /\ conn[s].wire[1].status = BadRequest

\* the handlers of GET, PUT, DELETE /todos/:id and PUT /todos/:id/complete
TodoByIdHandlers == {"getTodo", "updateTodo", "deleteTodo", "completeTodo"}

\* a store call of the request of connection s rejected: it was answered 500
Rejected(s) ==
    \E i \in 1..Len(conn[s].sends) :
        conn[s].sends[i].statusCode = InternalServerError

\* C12: GET, PUT and DELETE /todos/:id and PUT /todos/:id/complete with a
\* numeric id for which no todo row exists respond 404 "Not found" without
\* payload, also when the body of the PUT carries only a title (the store
\* calls resolving).
NotFoundAnswered ==
    \A s \in Slots :
        /\ conn[s].handler \in TodoByIdHandlers
        /\ conn[s].pc = "done"
        /\ ~isNaN(getId(conn[s].url))
        /\ conn[s].todo = None
        /\ selectTodo(getId(conn[s].url).v) = {}
        /\ ~Rejected(s)
        => /\ conn[s].sends = <<Plain(NotFound, "Not found")>>
           /\ conn[s].wire[1].status = NotFound

\* C13: parseBody settles only after the end event; the buffered body is
\* parsed as URL-encoded when Content-Type includes x-www-form-urlencoded and
\* as JSON otherwise; malformed or empty JSON rejects the promise with an
\* error string and leaves request.body the empty default; on success
\* request.body is the parsed mapping.
ParseBodySettles ==
    probe.kind = "parseBody"
    => /\ ~probe.ended => probe.settled = "pending" /\ probe.body = EmptyBody
       /\ probe.ended
          => IF probe.contentType = "x-www-form-urlencoded"
             THEN /\ probe.settled = "resolved"
                  /\ probe.body = IF probe.text = "object" THEN probe.fields
                                  ELSE EmptyBody
             ELSE IF probe.text = "object"
             THEN probe.settled = "resolved" /\ probe.body = probe.fields
             ELSE /\ probe.settled = "rejected"
                  /\ probe.error = "Request body must be valid JSON"
                  /\ probe.body = EmptyBody

\* C13 witness: a malformed JSON body was buffered whole and the promise
\* rejected at the end event
ParseBodySettlesWitness ==
    /\ probe.kind = "parseBody"
    /\ probe.contentType = "json"
    /\ probe.text = "garbage"
    /\ probe.received = MaxChunks
    /\ probe.settled = "rejected"

\* the step in which createTodo of connection s gets its row from Todo.create
Creates(s) ==
    /\ conn[s].handler = "createTodo"
    /\ conn[s].pc = "Todo.create"
    /\ conn'[s].pc = "done"
    /\ conn'[s].sends[1].statusCode # InternalServerError

\* the created row holds the title and the description of the body, status
\* "incomplete", no completedAt and no editedAt, under the id of the answer
CreateStores ==
    \A s \in Slots :
        Creates(s)
        => \E id \in 1..(MaxTodos + 1) :
              /\ selectTodo(id) = {}
              /\ todos' = todos \cup
                    {TodoRow(id, conn[s].body.title, conn[s].body.description,
                             "incomplete", FALSE, FALSE)}
              /\ conn'[s].sends[1].redirect = "/todos/" \o ToString(id)

\* a row changes only in a step of a request that updates, completes or
\* deletes the todo of that id
Untouched ==
    \A t \in todos :
        t \in todos'
        \/ \E s \in Slots :
              /\ conn[s].pc \in {"todo.update", "todo.markComplete", "todo.delete"}
              /\ conn[s].todo[1].props.id = t.id

\* GET /todos/:id of an existing todo returns its row as it is stored
GetReturnsRow ==
    \A s \in Slots :
        /\ conn[s].handler = "getTodo"
        /\ conn[s].pc = "done"
        /\ ~isNaN(getId(conn[s].url))
        /\ selectTodo(getId(conn[s].url).v) # {}
        /\ ~Rejected(s)
        => /\ Len(conn[s].sends) = 1
           /\ conn[s].sends[1].statusCode = OK
           /\ conn[s].sends[1].payload[1].todo \in selectTodo(getId(conn[s].url).v)
           /\ ~conn[s].sends[1].payload[1].todo.editedAt
              => /\ conn[s].sends[1].payload[1].todo.status = "incomplete"
                 /\ ~conn[s].sends[1].payload[1].todo.completedAt

\* C14: round trip: after a successful POST /todos with a non-empty title
\* and description, GET /todos/:id for the created id returns the same title
\* and description, status "incomplete" and no completedAt / editedAt,
\* provided no other request touched that todo in between.
RoundTrip == [][CreateStores /\ Untouched]_vars /\ []GetReturnsRow

\* C14 witness: a todo created as (A, D) and never edited is returned by GET
RoundTripWitness ==
    \E s \in Slots :
        /\ conn[s].handler = "getTodo"
        /\ conn[s].pc = "done"
        /\ Len(conn[s].sends) = 1
        /\ conn[s].sends[1].statusCode = OK
        /\ conn[s].sends[1].payload[1].todo.title = "A"
        /\ conn[s].sends[1].payload[1].todo.description = "D"
        /\ ~conn[s].sends[1].payload[1].todo.editedAt

\* the request of connection s was answered, and not with an error status
Succeeded(s) ==
    /\ conn[s].pc = "done"
    /\ Len(conn[s].sends) >= 1
    /\ conn[s].sends[1].statusCode \notin
          {BadRequest, NotFound, InternalServerError}

\* C15: to a client that does not accept HTML, a successful POST /todos
\* responds 201 "Todo created successfully!" with the created todo under
\* payload.todo; a successful PUT /todos/:id, DELETE /todos/:id and
\* PUT /todos/:id/complete respond 200 with their success message.
JsonSuccessStatus ==
    \A s \in Slots :
        Succeeded(s) /\ ~accepts(conn[s].accept, HTML)
        => LET wire == conn[s].wire[1]
           IN  /\ conn[s].handler = "createTodo"
                  => /\ wire.status = Created
                     /\ wire.json.message = "Todo created successfully!"
                     /\ "payload" \in wire.json.keys
               /\ conn[s].handler = "updateTodo"
                  => /\ wire.status = OK
                     /\ wire.json.message = "Todo updated successfully!"
               /\ conn[s].handler = "deleteTodo"
                  => /\ wire.status = OK
                     /\ wire.json.message = "Todo deleted successfully!"
               /\ conn[s].handler = "completeTodo"
                  => /\ wire.status = OK
                     /\ wire.json.message = "Todo marked as complete!"

\* the body of the request of connection s lacks a non-empty title or a
\* non-empty description
LacksTitleOrDescription(s) ==
    ~Truthy(conn[s].body.title) \/ ~Truthy(conn[s].body.description)

\* POST /todos without title or description is answered 400 with a payload
\* that contains no todo, and createTodo returns without a store call
CreateRejected ==
    \A s \in Slots :
        conn[s].handler = "createTodo" /\ LacksTitleOrDescription(s)
        => /\ conn[s].pc = "done"
           /\ Len(conn[s].sends) = 1
           /\ conn[s].sends[1].statusCode = BadRequest
           /\ conn[s].sends[1].message =
                 "Request body must include title and description."
           /\ conn[s].sends[1].payload # None
           /\ "todo" \notin DOMAIN conn[s].sends[1].payload[1]
           /\ conn[s].wire[1].status = BadRequest

\* no step of such a request changes the store
CreateRejectedFrame ==
    (\E s \in Slots : conn[s].handler = "createTodo" /\ LacksTitleOrDescription(s))
    => UNCHANGED storeVars

\* C16: POST /todos whose body lacks a non-empty title or a non-empty
\* description responds 400 "Request body must include title and
\* description." with a payload that contains no todo, and no todo row is
\* created (the store is unchanged).
CreateValidation == []CreateRejected /\ [][CreateRejectedFrame]_vars

\* C16 witness: a POST /todos with an empty title was answered 400
CreateValidationWitness ==
    \E s \in Slots :
        /\ conn[s].handler = "createTodo"
        /\ conn[s].body.title = ""
        /\ conn[s].pc = "done"
        /\ conn[s].sends[1].statusCode = BadRequest

\* C17: PUT /todos/:id on an existing todo with a body that carries only
\* some of the fields (e.g. only the title) succeeds: the supplied fields
\* are updated, the others keep their values and editedAt becomes non-null.
PartialUpdate ==
    \A s \in Slots :
        /\ conn[s].handler = "updateTodo"
        /\ conn[s].pc = "done"
        /\ ~isNaN(getId(conn[s].url))
        /\ selectTodo(getId(conn[s].url).v) # {}
        /\ Truthy(conn[s].body.title)
        /\ ~Rejected(s)
        => /\ Succeeded(s)
           /\ \A t \in selectTodo(getId(conn[s].url).v) :
                 /\ t.title = conn[s].body.title
                 /\ Truthy(conn[s].body.description)
                    => t.description = conn[s].body.description
                 /\ t.editedAt

\* C18: PUT /todos/:id/complete on an existing todo leaves it with status
\* "complete" and a non-null completedAt, whether it was incomplete or
\* already complete before; completing an already-complete todo again is
\* not answered with an error and does not revert the status (the store
\* calls resolving).
CompleteIdempotent ==
    \A s \in Slots :
        /\ conn[s].handler = "completeTodo"
        /\ conn[s].pc = "done"
        /\ conn[s].todo # None
        /\ ~Rejected(s)
        => /\ Succeeded(s)
           /\ Len(conn[s].sends) = 1
           /\ conn[s].sends[1].message = "Todo marked as complete!"
           /\ selectTodo(conn[s].todo[1].props.id) # {}
           /\ \A t \in selectTodo(conn[s].todo[1].props.id) :
                 t.status = "complete" /\ t.completedAt

\* C18 witness: a todo that was read as already complete was completed again
CompleteIdempotentWitness ==
    \E s \in Slots :
        /\ conn[s].handler = "completeTodo"
        /\ conn[s].pc = "done"
        /\ conn[s].todo # None
        /\ conn[s].todo[1].props.status = "complete"
        /\ Succeeded(s)

\* the step in which todo.delete of the request of connection s resolves and
\* the request is answered with the success message
Deletes(s) ==
    /\ conn[s].pc = "todo.delete"
    /\ conn'[s].pc = "done"
    /\ \E i \in 1..Len(conn'[s].sends) :
          conn'[s].sends[i].message = "Todo deleted successfully!"

\* after the delete the todo and the subtodos it owned cannot be read; the
\* other todos and subtodos are as before
DeleteCascades ==
    \A s \in Slots :
        Deletes(s)
        => LET id == conn[s].todo[1].props.id
           IN  /\ TodoRead(id)' = None
               /\ readByTodoId(id)' = {}
               /\ \A t \in readByTodoId(id) : selectSubTodo(t.id)' = {}
               /\ todos' = {t \in todos : t.id # id}
               /\ subtodos' = {t \in subtodos : t.todoId # Some(id)}

\* C19: after a successful delete of a todo, Todo.read for its id returns
\* null and every subtodo it owned is no longer retrievable (SubTodo.read
\* returns null, listSubTodos is empty), while the todos and the subtodos of
\* other todos are unchanged.
CascadeDelete == [][DeleteCascades]_vars

\* C19 witness: a todo read with a subtodo was deleted and another subtodo
\* is still stored
CascadeDeleteWitness ==
    \E s \in Slots :
        /\ conn[s].handler = "deleteTodo"
        /\ conn[s].pc = "done"
        /\ Succeeded(s)
        /\ conn[s].todo[1].subTodos # {}
        /\ subtodos # {}
        /\ todos # {}

\* the request of connection s was answered with the success of a delete
Deleted(s) ==
    /\ conn[s].pc = "done"
    /\ Len(conn[s].sends) = 1
    /\ conn[s].sends[1].message = "Todo deleted successfully!"

\* of two requests to delete the same todo at most one is answered with the
\* success message, and then the other is answered 404 or 500
AtMostOneDeleted ==
    \A s1, s2 \in Slots :
        /\ s1 # s2
        /\ conn[s1].handler = "deleteTodo"
        /\ conn[s2].handler = "deleteTodo"
        /\ conn[s1].url = conn[s2].url
        /\ Deleted(s1)
        /\ conn[s2].pc = "done"
        => /\ ~Deleted(s2)
           /\ Len(conn[s2].sends) = 1
           /\ conn[s2].sends[1].statusCode \in {NotFound, InternalServerError}

\* success is reported only in a step that removes exactly one row
DeletedOneRow ==
    \A s \in Slots :
        Deletes(s)
        => /\ Cardinality(selectTodo(conn[s].todo[1].props.id)) = 1
           /\ selectTodo(conn[s].todo[1].props.id)' = {}

\* C20: deleteTodo reports success only for a DELETE that affected exactly
\* one row: when two DELETE /todos/:id requests for the same existing todo
\* are handled concurrently, in any interleaving of their read and delete
\* steps, at most one responds with the success message and the other
\* responds 404 or 500; the todo is removed exactly once.
ConcurrentDelete == []AtMostOneDeleted /\ [][DeletedOneRow]_vars

\* C20 witness: both requests read the todo before either deleted it; one
\* was answered with the success message, the other with the 500 of a
\* DELETE that affected no row
ConcurrentDeleteWitness ==
    \E s1, s2 \in Slots :
        /\ s1 # s2
        /\ conn[s1].url = conn[s2].url
        /\ Deleted(s1)
        /\ conn[s2].handler = "deleteTodo"
        /\ conn[s2].pc = "done"
        /\ conn[s2].todo # None
        /\ conn[s2].sends[1].message = "Error while deleting todo."

\* C21: GET /todos?status=s with s "incomplete" or "complete" returns
\* exactly the todos whose status is s; any other non-empty status value is
\* answered 400 "Invalid filter parameter." without payload and without a
\* store call (the store call resolving).
StatusFilter ==
    \A s \in Slots :
        conn[s].handler = "getTodoList"
        => LET statusFilter == searchParam(conn[s].url, "status")
           IN  /\ Truthy(statusFilter)
                  /\ statusFilter \notin {"incomplete", "complete"}
                  => /\ conn[s].pc = "done"
                     /\ conn[s].sends =
                           <<Plain(BadRequest, "Invalid filter parameter.")>>
                     /\ conn[s].wire[1].status = BadRequest
               /\ statusFilter \in {"incomplete", "complete"}
                  /\ conn[s].pc = "done"
                  /\ ~Rejected(s)
                  => /\ Len(conn[s].sends) = 1
                     /\ conn[s].sends[1].statusCode = OK
                     /\ conn[s].sends[1].payload[1].todos =
                           {t \in todos : t.status = statusFilter}

\* C21 witness: the list of the complete todos was returned while an
\* incomplete todo was stored as well
StatusFilterWitness ==
    \E s \in Slots :
        /\ conn[s].handler = "getTodoList"
        /\ searchParam(conn[s].url, "status") = "complete"
        /\ conn[s].pc = "done"
        /\ Len(conn[s].sends) = 1
        /\ conn[s].sends[1].payload[1].todos # {}
        /\ \E t \in todos : t.status = "incomplete"

\* C22: when a store operation rejects inside a handler the failure is
\* caught at the controller boundary: the request is answered 500 with a
\* fixed generic message, once, and the handler completes without raising
\* an exception to its caller.  The requests considered are those whose
\* first answer is the 500 of the rejected store call.
StoreFailureCaught ==
    \A s \in Slots :
        /\ conn[s].handler # Undef
        /\ conn[s].pc = "done"
        /\ Len(conn[s].sends) >= 1
        /\ conn[s].sends[1].statusCode = InternalServerError
        => /\ conn[s].wire[1].status = InternalServerError
           /\ Len(conn[s].sends) = 1
           /\ ~conn[s].threw

\* the handlers of the subtodo routes, nested under /todos/:id
SubTodoHandlers == {"createSubtodo", "getSubTodoList", "completeSubTodo"}

\* C23: the subtodo routes under a numeric todo id for which no todo row
\* exists respond 404 "Todo not found" without payload (for a POST whose
\* body passes the validation of the subtodo, and for a GET or PUT whose
\* store calls resolve).
ParentTodoChecked ==
    \A s \in Slots :
        /\ conn[s].handler \in SubTodoHandlers
        /\ conn[s].pc = "done"
        /\ ~isNaN(getId(conn[s].url))
        /\ selectTodo(getId(conn[s].url).v) = {}
        /\ conn[s].handler = "createSubtodo"
           => isValidSubTodoProps(conn[s].body.title)
        /\ conn[s].handler # "createSubtodo" => ~Rejected(s)
        => /\ conn[s].sends = <<Plain(NotFound, "Todo not found")>>
           /\ conn[s].wire[1].status = NotFound

\* C24: GET /todos/:id/subtodos for an existing todo responds 200 "SubTodo
\* list retrieved" with a list of exactly the subtodos whose todoId is :id,
\* narrowed by the status filter when one is given (to a client that does
\* not accept HTML, the store call resolving).
SubTodosOfTodoListed ==
    \A s \in Slots :
        /\ conn[s].handler = "getSubTodoList"
        /\ conn[s].pc = "done"
        /\ ~isNaN(getId(conn[s].url))
        /\ selectTodo(getId(conn[s].url).v) # {}
        /\ ~accepts(conn[s].accept, HTML)
        /\ ~Rejected(s)
        /\ Len(conn[s].sends) = 1
        /\ conn[s].sends[1].statusCode # BadRequest
        => LET statusFilter == searchParam(conn[s].url, "status")
               owned == readByTodoId(getId(conn[s].url).v)
           IN  /\ conn[s].wire[1].status = OK
               /\ conn[s].wire[1].json.message = "SubTodo list retrieved"
               /\ conn[s].wire[1].json.payload[1].subtodosArray =
                     IF Truthy(statusFilter)
                     THEN {t \in owned : t.status = statusFilter}
                     ELSE owned

\* C25: in every reachable store state every persisted subtodo is owned by
\* exactly one todo: its todoId is non-null and refers to an existing todo
\* row.
SubTodoOwned ==
    \A t \in subtodos :
        /\ t.todoId # None
        /\ selectTodo(t.todoId[1]) # {}

\* C26: after todo.removeSubTodo(subTodoId) resolves for a subtodo that the
\* store holds under that todo, todo.listSubTodos() no longer contains that
\* subtodo, for any Todo instance referring to that todo, whether the
\* subtodo was added through that instance or through another one.
RemoveSubTodoRemoves ==
    /\ probe.kind = "todo"
    /\ probe.last # None
    /\ probe.last[1].held
    /\ probe.last[1].resolved
    => probe.last[1].subTodoId \notin
          {st.id : st \in readByTodoId(probe.last[1].todo)}

\* status is "complete" exactly when completedAt is set
CompletedAtSet ==
    \A t \in todos \cup subtodos : (t.status = "complete") <=> t.completedAt

\* no step changes a status from "complete" back to "incomplete"
StaysComplete ==
    /\ \A t \in todos : \A u \in todos' :
          t.id = u.id /\ t.status = "complete" => u.status = "complete"
    /\ \A t \in subtodos : \A u \in subtodos' :
          t.id = u.id /\ t.status = "complete" => u.status = "complete"

\* C27: in every store state reachable through controller requests, for
\* every persisted todo and subtodo the status is "complete" if and only if
\* completedAt is non-null, and no controller operation changes a status
\* from "complete" back to "incomplete".
StatusMatchesCompletedAt == []CompletedAtSet /\ [][StaysComplete]_vars

\* C27 witness: a complete todo that was also updated, and a complete
\* subtodo
StatusMatchesCompletedAtWitness ==
    /\ \E t \in todos : t.status = "complete" /\ t.completedAt /\ t.title = "B"
    /\ \E t \in subtodos : t.status = "complete" /\ t.completedAt

\* the handlers registered under GET
GetHandlers ==
    {"getTodoList", "sendFormCreate", "sendFormEdit", "getTodo", "getSubTodoList"}

\* a step of a request whose handler is registered under GET leaves the
\* rows of the store as they are
GetKeepsStore ==
    (\E s \in Slots : conn[s].handler \in GetHandlers /\ conn'[s] # conn[s])
    => UNCHANGED <<todos, subtodos>>

\* C28: the handlers registered under GET never create, update or delete a
\* todo or subtodo row, for any request body (a body carrying _method
\* "DELETE" or "PUT" included) and any query parameters.
GetDoesNotMutate == [][GetKeepsStore]_vars

\* the subtodo named by the path of the request of connection s is owned by
\* the todo named by that path
OwnedByPathTodo(s) ==
    \A t \in selectSubTodo(getSubTodoId(conn[s].url).v) :
        t.todoId = Some(getId(conn[s].url).v)

\* a step of completeSubTodo changes a subtodo only if the todo of the path
\* owns it
CompletesOwned ==
    \A s \in Slots :
        /\ conn[s].handler = "completeSubTodo"
        /\ conn'[s] # conn[s]
        /\ subtodos' # subtodos
        => OwnedByPathTodo(s)

\* a request for a subtodo of another todo is not answered with success
ForeignNotCompleted ==
    \A s \in Slots :
        /\ conn[s].handler = "completeSubTodo"
        /\ conn[s].pc = "done"
        /\ ~OwnedByPathTodo(s)
        => ~Succeeded(s)

\* C29: PUT /todos/:id/subtodos/:subid/complete changes the status of
\* subtodo :subid only if its todoId equals :id; a subtodo owned by another
\* todo than the one of the path is left unchanged and the request is not
\* answered with success.
CompleteSubTodoOwnership == [][CompletesOwned]_vars /\ []ForeignNotCompleted

\* the column of the table todos that a sortBy value names, Undef if none
ColumnNamed(sortBy) ==
    CASE sortBy = "id" -> "id"
      [] sortBy = "title" -> "title"
      [] sortBy = "description" -> "description"
      [] sortBy = "status" -> "status"
      [] sortBy = "dueAt" -> "due_at"
      [] sortBy = "createdAt" -> "created_at"
      [] sortBy = "completedAt" -> "completed_at"
      [] sortBy = "editedAt" -> "edited_at"
      [] OTHER -> Undef

\* C30: the sortBy values that getTodoList accepts are the values that
\* Todo.readAll maps to a column of that name: an accepted value orders the
\* list by its own column, and a value that readAll can sort by is not
\* answered 400 "Invalid sortBy parameter.".
SortByAgrees ==
    /\ probe.kind = "query"
    /\ probe.out # None
    /\ Truthy(probe.sortBy)
    /\ ~Truthy(probe.status)
    /\ ~Truthy(probe.orderBy)
    => /\ probe.out[1].invalid = Undef
          => probe.out[1].orderBy.column = ColumnNamed(probe.sortBy)
       /\ getSortBy(probe.sortBy) = ColumnNamed(probe.sortBy)
          => probe.out[1].invalid # "Invalid sortBy parameter."

====
